---- MODULE Spec2Model ----
(***************************************************************************)
(* UDP tunnel transport of easytier-core (tunnels/udp_tunnel.rs).          *)
(*                                                                         *)
(* Two state machines are modelled over one set of variables:              *)
(*   - the listener side (UdpTunnelListener): the receive task, the        *)
(*     per-connection forwarder tasks, the socket map, the accept queue    *)
(*     and the upper layer that accepts, uses and drops tunnels  (Spec);   *)
(*   - the connector side (UdpTunnelConnector): the SYN/SACK handshake on  *)
(*     one or several bound sockets                            (ConnSpec). *)
(*                                                                         *)
(* The rkyv codec (common/rkyv_util.rs) and the ring tunnel                *)
(* (tunnels/ring_tunnel.rs) are not part of the sources at hand; they are  *)
(* modelled from the written specification (a checked, self-describing     *)
(* envelope; a bounded in-process queue pair that is closed by dropping    *)
(* the server half).                                                       *)
(***************************************************************************)
EXTENDS Integers, Sequences, FiniteSets, TLC

\* ------------------------------------------------------------------ bounds
NumAddrs   == 2     \* remote socket addresses that send to the listener
MaxConnId  == 2     \* conn ids 1..MaxConnId (u32 in the code; 0 is HolePunch's)
MaxData    == 2     \* distinct one-byte user payloads
MaxTunnels == 2     \* SYNs the receive task handles in one run
RingCap    == 1     \* capacity of each direction of a ring bridge
MaxBinds   == 2     \* bind addresses given to the connector
\* capacity of the accept channel: tokio::sync::mpsc::channel(100) in the
\* code, scaled down so that the receive task can meet a full channel
AcceptQueueCap == 1

Addrs   == 1..NumAddrs
ConnIds == 1..MaxConnId
Bytes   == 1..MaxData

\* ------------------------------------------------------- packet envelope
\* enum UdpPacketPayload { Syn, Sack, HolePunch(Vec<u8>), Data(Vec<u8>) }
TagSyn       == 0
TagSack      == 1
TagHolePunch == 2
TagData      == 3

\* struct UdpPacket { conn_id, payload }
UdpPacket(conn_id, tag, data) == [conn_id |-> conn_id, tag |-> tag, data |-> data]

new_data_packet(conn_id, data) == UdpPacket(conn_id, TagData, data)
new_hole_punch_packet(data)    == UdpPacket(0, TagHolePunch, data)
new_syn_packet(conn_id)        == UdpPacket(conn_id, TagSyn, <<>>)
new_sack_packet(conn_id)       == UdpPacket(conn_id, TagSack, <<>>)

\* The archive: the variable-length data first, the fixed root record
\* <<length, variant tag, conn id>> at the end of the buffer.
RootLen == 3

encode_to_bytes(p) == p.data \o <<Len(p.data), p.tag, p.conn_id>>

\* Checked decode: the root must be present, the tag must name a variant,
\* the length must be the number of bytes in front of the root, and the
\* unit variants carry no bytes.  Anything else is a decode error.
decode_from_bytes_checked(buf) ==
    LET n == Len(buf) IN
    IF n < RootLen THEN [ok |-> FALSE]
    ELSE LET len  == buf[n - 2]
             tag  == buf[n - 1]
             conn == buf[n]
         IN  IF /\ tag \in {TagSyn, TagSack, TagHolePunch, TagData}
                /\ len = n - RootLen
                /\ (tag \in {TagSyn, TagSack} => len = 0)
             THEN [ok |-> TRUE, conn_id |-> conn, tag |-> tag,
                   offset |-> 0, len |-> len]
             ELSE [ok |-> FALSE]

\* fn try_get_data_payload(buf, conn_id) -> Option<BytesMut>
try_get_data_payload_any_conn(buf, conn_id) ==
    LET p == decode_from_bytes_checked(buf) IN
    IF ~p.ok THEN [some |-> FALSE, warn |-> "udp decode error"]
    ELSE IF p.tag # TagData THEN [some |-> FALSE, warn |-> "udp payload not data"]
    ELSE [some |-> TRUE, buf |-> SubSeq(buf, p.offset + 1, p.offset + p.len)]

\* (a payload cut from an envelope of any variant)
try_get_data_payload_any_variant(buf, conn_id) ==
    LET p == decode_from_bytes_checked(buf) IN
    IF ~p.ok THEN [some |-> FALSE, warn |-> "udp decode error"]
    ELSE IF p.conn_id # conn_id THEN [some |-> FALSE, warn |-> "udp conn id not match"]
    ELSE [some |-> TRUE, buf |-> SubSeq(buf, p.offset + 1, p.offset + p.len)]

try_get_data_payload(buf, conn_id) ==
    LET p == decode_from_bytes_checked(buf) IN
    IF ~p.ok THEN [some |-> FALSE, warn |-> "udp decode error"]
    ELSE IF p.conn_id # conn_id THEN [some |-> FALSE, warn |-> "udp conn id not match"]
    ELSE IF p.tag # TagData THEN [some |-> FALSE, warn |-> "udp payload not data"]
    ELSE [some |-> TRUE, buf |-> SubSeq(buf, p.offset + 1, p.offset + p.len)]

\* ------------------------------------------------ datagrams on the wire
Payloads == {<<b>> : b \in Bytes}

Packets ==
    {new_syn_packet(c) : c \in ConnIds} \cup
    {new_sack_packet(c) : c \in ConnIds} \cup
    {new_data_packet(c, d) : c \in ConnIds, d \in Payloads} \cup
    {new_hole_punch_packet(d) : d \in Payloads}

\* byte strings that are no envelope: too short, unknown tag, wrong length,
\* a unit variant that carries bytes
Malformed == {<<>>, <<1, 1>>, <<0, 7, 1>>, <<1, 0, 3, 1>>, <<1, 1, 0, 1>>}

Datagrams == {encode_to_bytes(p) : p \in Packets} \cup Malformed

\* ======================================================================
\* State
\* ======================================================================
VARIABLES
    listener,   \* UdpTunnelListener: "new" | "listening" | "dropped"
    recvTask,   \* the receive task: "none" | "running" | "panicked"
    rpc,        \* where the receive task stands: "recv" | "hc_insert" |
                \*   "hc_spawn" | "hc_enqueue" | "ring_send"
    cur,        \* the datagram the receive task is working on
    sock_map,   \* DashMap<SocketAddr, ArcStreamSinkPair>: addr -> [conn_id, tid]
    tunnels,    \* every ring bridge created so far, by tunnel number
    conn_q,     \* the accept channel conn_send -> conn_recv
    out,        \* what the last step sent on the listener's socket
    log,        \* the warning the last step of the receive task logged
    bind_addrs, \* connector: number of configured bind addresses
    conn,       \* connector: connect() is "idle" | "running" | "ok" | "err"
    attempts,   \* connector: one try_connect_with_socket per bound socket
    cstream     \* connector: the stream of the tunnel connect() returned

lvars == <<listener, recvTask, rpc, cur, sock_map, tunnels, conn_q, out, log>>
cvars == <<bind_addrs, conn, attempts, cstream>>
vars  == <<listener, recvTask, rpc, cur, sock_map, tunnels, conn_q, out, log,
           bind_addrs, conn, attempts, cstream>>

\* (fresh: the source of the SYN in hand had no map entry when it was read)
NoCur == [addr |-> 0, conn_id |-> 0, tid |-> 0, data |-> <<>>, fresh |-> FALSE]

\* ----------------------------------------------------------- ring bridge
\* create_ring_tunnel_pair(): two bounded queues.  `up` carries what the
\* receive task pushes into the client half's sink towards the server
\* half's stream; `down` carries what the upper layer writes into the
\* server half's sink towards the forwarder.  Each `up` item remembers the
\* source address and conn id of the datagram it was cut from.
create_ring_tunnel_pair(addr, conn_id) ==
    [addr |-> addr, conn_id |-> conn_id,
     handle |-> "building",   \* "building" | "queued" | "accepted" |
                              \*   "dropped" (by the upper layer) |
                              \*   "discarded" (never accepted)
     fwd |-> "unspawned",     \* "unspawned" | "running" | "exited" | "aborted"
     closed |-> FALSE, up |-> <<>>, down |-> <<>>]

\* a sink's send on one direction of the bridge
RingSendResult(t) ==
    IF tunnels[t].closed THEN "closed"
    ELSE IF Len(tunnels[t].up) >= RingCap THEN "full"
    ELSE "ok"

\* dropping the server half closes the bridge; what it had not read is gone
DropServerHalf(tn, how) ==
    [tn EXCEPT !.handle = how, !.closed = TRUE, !.up = <<>>]

\* JoinSet::drop aborts every task it still owns; an aborted forwarder
\* never reaches the code after its forward().await
AbortAll(ts) ==
    [t \in DOMAIN ts |->
        IF ts[t].fwd = "running" THEN [ts[t] EXCEPT !.fwd = "aborted"] ELSE ts[t]]

\* The receive task's future owns a clone of forward_tasks (listen, line
\* 282), so the JoinSet is dropped only when both the listener and the
\* receive task's future are gone.  The map itself stays readable after
\* that through the clone held by get_conn_counter (line 384), with the
\* entries the aborted forwarders did not remove.
JoinSetDropped(l, r) == l = "dropped" /\ r # "running"

RemoveKey(m, k) == [a \in DOMAIN m \ {k} |-> m[a]]
InsertKey(m, k, v) == [a \in DOMAIN m \cup {k} |-> IF a = k THEN v ELSE m[a]]

\* get_conn_counter().get()
ConnCounterGet == Cardinality(DOMAIN sock_map)

\* ======================================================================
\* Listener
\* ======================================================================
LInit ==
    /\ listener = "new"
    /\ recvTask = "none"
    /\ rpc = "recv"
    /\ cur = NoCur
    /\ sock_map = <<>>
    /\ tunnels = <<>>
    /\ conn_q = <<>>
    /\ out = <<>>
    /\ log = ""

\* listen(): bind the socket and spawn the receive task
Listen ==
    /\ listener = "new"
    /\ listener' = "listening"
    /\ recvTask' = "running"
    /\ out' = <<>>
    /\ log' = ""
    /\ UNCHANGED <<rpc, cur, sock_map, tunnels, conn_q>>
    /\ UNCHANGED cvars

\* an unwrap() in the receive task fails: the task's future is dropped
\* and with it its clone of forward_tasks
RecvPanic ==
    /\ recvTask' = "panicked"
    /\ rpc' = "recv"
    /\ cur' = NoCur
    /\ out' = <<>>
    /\ log' = ""
    /\ tunnels' = IF JoinSetDropped(listener, "panicked")
                  THEN AbortAll(tunnels) ELSE tunnels
    /\ UNCHANGED <<listener, sock_map, conn_q>>

Receiving == recvTask = "running" /\ rpc = "recv"

\* listen, lines 300-304: the datagram does not decode
RecvDecodeError(addr, buf) ==
    /\ Receiving
    /\ ~decode_from_bytes_checked(buf).ok
    /\ out' = <<>>
    /\ log' = "udp decode error in forward task"
    /\ UNCHANGED <<listener, recvTask, rpc, cur, sock_map, tunnels, conn_q>>
    /\ UNCHANGED cvars

\* (handle_connect going on although the SACK could not be sent)
RecvSynIgnoreSendError(addr, buf, sendOk) ==
    LET p == decode_from_bytes_checked(buf) IN
    /\ Receiving
    /\ p.ok /\ p.tag = TagSyn
    /\ Len(tunnels) < MaxTunnels
    /\ out' = IF sendOk
              THEN <<[to |-> addr,
                      bytes |-> encode_to_bytes(new_sack_packet(p.conn_id))]>>
              ELSE <<>>
    /\ log' = ""
    /\ rpc' = "hc_insert"
    /\ cur' = [NoCur EXCEPT !.addr = addr, !.conn_id = p.conn_id,
                                !.fresh = addr \notin DOMAIN sock_map]
    /\ UNCHANGED <<listener, recvTask, sock_map, tunnels, conn_q>>
    /\ UNCHANGED cvars

\* listen, lines 306-316, and handle_connect, lines 223-225: a SYN is
\* answered with a SACK, whatever the socket map holds for its source
RecvSyn(addr, buf, sendOk) ==
    LET p == decode_from_bytes_checked(buf) IN
    /\ Receiving
    /\ p.ok /\ p.tag = TagSyn
    /\ Len(tunnels) < MaxTunnels
    /\ IF sendOk
       THEN /\ out' = <<[to |-> addr,
                         bytes |-> encode_to_bytes(new_sack_packet(p.conn_id))]>>
            /\ log' = ""
            /\ rpc' = "hc_insert"
            /\ cur' = [NoCur EXCEPT !.addr = addr, !.conn_id = p.conn_id,
                                !.fresh = addr \notin DOMAIN sock_map]
            /\ UNCHANGED <<listener, recvTask, sock_map, tunnels, conn_q>>
       ELSE RecvPanic
    /\ UNCHANGED cvars

\* handle_connect, lines 227-231: create the bridge, insert it under addr
HcInsert ==
    /\ recvTask = "running" /\ rpc = "hc_insert"
    /\ tunnels' = Append(tunnels, create_ring_tunnel_pair(cur.addr, cur.conn_id))
    /\ sock_map' = InsertKey(sock_map, cur.addr,
                             [conn_id |-> cur.conn_id, tid |-> Len(tunnels) + 1])
    /\ cur' = [cur EXCEPT !.tid = Len(tunnels) + 1]
    /\ rpc' = "hc_spawn"
    /\ out' = <<>>
    /\ log' = ""
    /\ UNCHANGED <<listener, recvTask, conn_q>>
    /\ UNCHANGED cvars

\* (handle_connect without its forwarder)
HcSpawnNothing ==
    /\ recvTask = "running" /\ rpc = "hc_spawn"
    /\ rpc' = "hc_enqueue"
    /\ out' = <<>>
    /\ log' = ""
    /\ UNCHANGED <<listener, recvTask, cur, sock_map, tunnels, conn_q>>
    /\ UNCHANGED cvars

\* handle_connect, lines 232-251: spawn the forwarder task
HcSpawn ==
    /\ recvTask = "running" /\ rpc = "hc_spawn"
    /\ tunnels' = [tunnels EXCEPT ![cur.tid].fwd = "running"]
    /\ rpc' = "hc_enqueue"
    /\ out' = <<>>
    /\ log' = ""
    /\ UNCHANGED <<listener, recvTask, cur, sock_map, conn_q>>
    /\ UNCHANGED cvars

\* listen, lines 317-319: conn_send.send(conn).await waits for room in the
\* channel; with the receiver gone it fails and the tunnel is dropped
HcEnqueue ==
    /\ recvTask = "running" /\ rpc = "hc_enqueue"
    /\ IF listener = "dropped"
       THEN /\ tunnels' = [tunnels EXCEPT ![cur.tid] = DropServerHalf(@, "discarded")]
            /\ conn_q' = conn_q
            /\ log' = "udp send conn to accept channel error"
       ELSE /\ Len(conn_q) < AcceptQueueCap
            /\ tunnels' = [tunnels EXCEPT ![cur.tid].handle = "queued"]
            /\ conn_q' = Append(conn_q, cur.tid)
            /\ log' = ""
    /\ rpc' = "recv"
    /\ cur' = NoCur
    /\ out' = <<>>
    /\ UNCHANGED <<listener, recvTask, sock_map>>
    /\ UNCHANGED cvars

PushUp(t, item) == [tunnels EXCEPT ![t].up = Append(@, item)]

\* (a dispatch that, on a full ring, puts the new payload in front of the
\* one the ring holds)
try_forward_packet_overtaking(addr, buf) ==
    IF addr \notin DOMAIN sock_map
    THEN /\ out' = <<>>
         /\ log' = "udp forward packet: no entry"
         /\ UNCHANGED <<listener, recvTask, rpc, cur, sock_map, tunnels, conn_q>>
    ELSE LET pair == sock_map[addr]
             pl   == try_get_data_payload(buf, pair.conn_id)
             item == [data |-> pl.buf, src |-> addr,
                      conn_id |-> decode_from_bytes_checked(buf).conn_id]
         IN  IF ~pl.some
             THEN /\ out' = <<>>
                  /\ log' = pl.warn
                  /\ UNCHANGED <<listener, recvTask, rpc, cur, sock_map,
                                 tunnels, conn_q>>
             ELSE CASE RingSendResult(pair.tid) = "closed" -> RecvPanic
                    [] RingSendResult(pair.tid) = "full" ->
                         /\ rpc' = "ring_send"
                         /\ cur' = [NoCur EXCEPT !.addr = addr,
                                      !.conn_id = item.conn_id, !.tid = pair.tid,
                                      !.data = Head(tunnels[pair.tid].up).data]
                         /\ tunnels' = [tunnels EXCEPT ![pair.tid].up =
                                           <<item>> \o Tail(@)]
                         /\ out' = <<>>
                         /\ log' = ""
                         /\ UNCHANGED <<listener, recvTask, sock_map, conn_q>>
                    [] OTHER ->
                         /\ tunnels' = PushUp(pair.tid, item)
                         /\ out' = <<>>
                         /\ log' = ""
                         /\ UNCHANGED <<listener, recvTask, rpc, cur, sock_map,
                                        conn_q>>

\* try_forward_packet, lines 190-211, called for every envelope that is
\* no SYN
try_forward_packet(addr, buf) ==
    IF addr \notin DOMAIN sock_map
    THEN /\ out' = <<>>
         /\ log' = "udp forward packet: no entry"
         /\ UNCHANGED <<listener, recvTask, rpc, cur, sock_map, tunnels, conn_q>>
    ELSE LET pair == sock_map[addr]
             pl   == try_get_data_payload(buf, pair.conn_id)
             item == [data |-> pl.buf, src |-> addr,
                      conn_id |-> decode_from_bytes_checked(buf).conn_id]
         IN  IF ~pl.some
             THEN /\ out' = <<>>
                  /\ log' = pl.warn
                  /\ UNCHANGED <<listener, recvTask, rpc, cur, sock_map,
                                 tunnels, conn_q>>
             ELSE CASE RingSendResult(pair.tid) = "closed" -> RecvPanic
                    [] RingSendResult(pair.tid) = "full" ->
                         /\ rpc' = "ring_send"
                         /\ cur' = [NoCur EXCEPT !.addr = addr,
                                      !.conn_id = item.conn_id, !.tid = pair.tid,
                                      !.data = pl.buf]
                         /\ out' = <<>>
                         /\ log' = ""
                         /\ UNCHANGED <<listener, recvTask, sock_map, tunnels,
                                        conn_q>>
                    [] OTHER ->
                         /\ tunnels' = PushUp(pair.tid, item)
                         /\ out' = <<>>
                         /\ log' = ""
                         /\ UNCHANGED <<listener, recvTask, rpc, cur, sock_map,
                                        conn_q>>

\* (a dispatch that takes the source's entry for granted)
RecvForwardUnwrapEntry(addr, buf) ==
    LET p == decode_from_bytes_checked(buf) IN
    /\ Receiving
    /\ p.ok /\ p.tag # TagSyn
    /\ IF addr \in DOMAIN sock_map
       THEN try_forward_packet(addr, buf)
       ELSE RecvPanic
    /\ UNCHANGED cvars

\* listen, lines 320-324
RecvForward(addr, buf) ==
    LET p == decode_from_bytes_checked(buf) IN
    /\ Receiving
    /\ p.ok /\ p.tag # TagSyn
    /\ try_forward_packet(addr, buf)
    /\ UNCHANGED cvars

\* try_forward_packet, line 209: the send into a full ring completes when
\* the ring has room again, and fails when the bridge is closed
RingSendResume ==
    /\ recvTask = "running" /\ rpc = "ring_send"
    /\ RingSendResult(cur.tid) # "full"
    /\ IF RingSendResult(cur.tid) = "closed"
       THEN RecvPanic
       ELSE /\ tunnels' = PushUp(cur.tid, [data |-> cur.data, src |-> cur.addr,
                                           conn_id |-> cur.conn_id])
            /\ rpc' = "recv"
            /\ cur' = NoCur
            /\ out' = <<>>
            /\ log' = ""
            /\ UNCHANGED <<listener, recvTask, sock_map, conn_q>>
    /\ UNCHANGED cvars

\* ------------------------------------------------------------- forwarder
\* handle_connect, lines 246-250: what the forwarder does once forward()
\* has returned
ForwarderExitKeepEntry(t) ==
    /\ sock_map' = sock_map
    /\ tunnels' = [tunnels EXCEPT ![t].fwd = "exited", ![t].closed = TRUE,
                                  ![t].down = <<>>]

ForwarderExit(t) ==
    /\ sock_map' = IF tunnels[t].addr \in DOMAIN sock_map
                   THEN RemoveKey(sock_map, tunnels[t].addr) ELSE sock_map
    /\ tunnels' = [tunnels EXCEPT ![t].fwd = "exited", ![t].closed = TRUE,
                                  ![t].down = <<>>]

\* handle_connect, lines 234-245, and get_tunnel_from_socket, lines
\* 130-141: one buffer of the ring goes out as one Data envelope
ForwardOne(t, sendOk) ==
    /\ t \in DOMAIN tunnels
    /\ tunnels[t].fwd = "running"
    /\ tunnels[t].down # <<>>
    /\ IF sendOk
       THEN /\ out' = <<[to |-> tunnels[t].addr,
                         bytes |-> encode_to_bytes(
                             new_data_packet(tunnels[t].conn_id,
                                             Head(tunnels[t].down)))]>>
            /\ log' = ""
            /\ tunnels' = [tunnels EXCEPT ![t].down = Tail(@)]
            /\ sock_map' = sock_map
       ELSE /\ out' = <<>>
            /\ log' = ""
            /\ ForwarderExit(t)
    /\ UNCHANGED <<listener, recvTask, rpc, cur, conn_q>>
    /\ UNCHANGED cvars

\* the ring's stream ends: the server half was dropped and nothing is left
ForwardEos(t) ==
    /\ t \in DOMAIN tunnels
    /\ tunnels[t].fwd = "running"
    /\ tunnels[t].down = <<>>
    /\ tunnels[t].closed
    /\ out' = <<>>
    /\ log' = ""
    /\ ForwarderExit(t)
    /\ UNCHANGED <<listener, recvTask, rpc, cur, conn_q>>
    /\ UNCHANGED cvars

\* ------------------------------------------------------------ upper layer
\* accept(), lines 350-358
Accept ==
    /\ listener = "listening"
    /\ conn_q # <<>>
    /\ tunnels' = [tunnels EXCEPT ![Head(conn_q)].handle = "accepted"]
    /\ conn_q' = Tail(conn_q)
    /\ out' = <<>>
    /\ log' = ""
    /\ UNCHANGED <<listener, recvTask, rpc, cur, sock_map>>
    /\ UNCHANGED cvars

\* the upper layer writes a buffer into an accepted tunnel's sink
SinkWrite(t, b) ==
    /\ t \in DOMAIN tunnels
    /\ tunnels[t].handle = "accepted"
    /\ ~tunnels[t].closed
    /\ Len(tunnels[t].down) < RingCap
    /\ tunnels' = [tunnels EXCEPT ![t].down = Append(@, b)]
    /\ out' = <<>>
    /\ log' = ""
    /\ UNCHANGED <<listener, recvTask, rpc, cur, sock_map, conn_q>>
    /\ UNCHANGED cvars

\* the upper layer reads the next item of an accepted tunnel's stream
StreamRead(t) ==
    /\ t \in DOMAIN tunnels
    /\ tunnels[t].handle = "accepted"
    /\ tunnels[t].up # <<>>
    /\ tunnels' = [tunnels EXCEPT ![t].up = Tail(@)]
    /\ out' = <<>>
    /\ log' = ""
    /\ UNCHANGED <<listener, recvTask, rpc, cur, sock_map, conn_q>>
    /\ UNCHANGED cvars

\* the upper layer drops a tunnel it got from accept()
DropTunnel(t) ==
    /\ t \in DOMAIN tunnels
    /\ tunnels[t].handle = "accepted"
    /\ tunnels' = [tunnels EXCEPT ![t] = DropServerHalf(@, "dropped")]
    /\ out' = <<>>
    /\ log' = ""
    /\ UNCHANGED <<listener, recvTask, rpc, cur, sock_map, conn_q>>
    /\ UNCHANGED cvars

\* the listener is dropped: conn_recv goes, and with it the tunnels still
\* queued; the JoinSet goes only if the receive task no longer holds it
DropListener ==
    /\ listener \in {"new", "listening"}
    /\ listener' = "dropped"
    /\ LET ts == [t \in DOMAIN tunnels |->
                    IF tunnels[t].handle = "queued"
                    THEN DropServerHalf(tunnels[t], "discarded") ELSE tunnels[t]]
       IN  tunnels' = IF JoinSetDropped("dropped", recvTask)
                      THEN AbortAll(ts) ELSE ts
    /\ conn_q' = <<>>
    /\ out' = <<>>
    /\ log' = ""
    /\ UNCHANGED <<recvTask, rpc, cur, sock_map>>
    /\ UNCHANGED cvars

TunnelIds == 1..MaxTunnels

LNext ==
    \/ Listen
    \/ \E a \in Addrs, d \in Datagrams : RecvDecodeError(a, d)
    \/ \E a \in Addrs, d \in Datagrams, ok \in BOOLEAN : RecvSyn(a, d, ok)
    \/ HcInsert
    \/ HcSpawn
    \/ HcEnqueue
    \/ \E a \in Addrs, d \in Datagrams : RecvForward(a, d)
    \/ RingSendResume
    \/ \E t \in TunnelIds, ok \in BOOLEAN : ForwardOne(t, ok)
    \/ \E t \in TunnelIds : ForwardEos(t)
    \/ Accept
    \/ \E t \in TunnelIds, b \in Payloads : SinkWrite(t, b)
    \/ \E t \in TunnelIds : StreamRead(t)
    \/ \E t \in TunnelIds : DropTunnel(t)
    \/ DropListener


\* ======================================================================
\* Connector
\* ======================================================================
\* the address the connector's url resolves to (try_connect_with_socket,
\* line 465); every other address of Addrs is a stranger
TargetAddr == 1

\* connect_with_default_bind uses one socket, connect_with_custom_bind one
\* per bind address
NumSockets(n) == IF n = 0 THEN 1 ELSE n

NewAttempt ==
    [st |-> "init",       \* "init" | "wait" | "ok" | "send_err" | "timeout" |
                          \*   "cancelled"
     conn_id |-> 0,       \* rand::random() at line 469
     syns |-> 0,          \* SYN envelopes handed to send_to
     noisy |-> FALSE,     \* a datagram was discarded during the wait
     sack_seen |-> FALSE] \* the socket received the SACK for conn_id

\* the stream half of get_tunnel_from_socket, before its first poll
NewStream ==
    [st |-> "open",       \* "open" | "panicked"
     yielded |-> <<>>,    \* the item the last poll of the stream yielded
     skipped |-> FALSE]   \* a datagram was read and not yielded

\* the datagram is the acknowledgement of the SYN with conn id c
IsSackFor(from, buf, c) ==
    /\ from = TargetAddr
    /\ buf = encode_to_bytes(new_sack_packet(c))

\* fn wait_sack, lines 416-447, on the datagram recv_from returned
wait_sack_any_conn(recv_addr, buf, conn_id) ==
    LET p == decode_from_bytes_checked(buf) IN
    IF recv_addr # TargetAddr THEN "unexpected sack addr"
    ELSE IF ~p.ok THEN "decode error"
    ELSE IF p.tag # TagSack THEN "unexpected payload"
    ELSE "ok"

wait_sack(recv_addr, buf, conn_id) ==
    LET p == decode_from_bytes_checked(buf) IN
    IF recv_addr # TargetAddr THEN "unexpected sack addr"
    ELSE IF ~p.ok THEN "decode error"
    ELSE IF conn_id # p.conn_id THEN "conn id not match"
    ELSE IF p.tag # TagSack THEN "unexpected payload"
    ELSE "ok"

\* fn wait_sack_loop, lines 455-458: what the attempt does with one result
\* of wait_sack
wait_sack_loop_once(res) == IF res = "ok" THEN "ok" ELSE "proto_err"

wait_sack_loop(res) == IF res = "ok" THEN "ok" ELSE "wait"

Finished(st) == st \in {"ok", "send_err", "timeout", "proto_err"}

\* connect_with_custom_bind, lines 516-522: futures.next() yields the
\* result of the attempt that completes first, and returning drops the rest
FirstCompleted(s, st) ==
    IF st = "ok" THEN "ok" ELSE "err"

\* attempt s, its other fields now a, moves to state st
Step(s, st, a) ==
    /\ conn' = IF Finished(st) THEN FirstCompleted(s, st) ELSE conn
    /\ attempts' =
         [u \in DOMAIN attempts |->
            IF u = s THEN [a EXCEPT !.st = st]
            ELSE IF Finished(st) /\ ~Finished(attempts[u].st)
                 THEN [attempts[u] EXCEPT !.st = "cancelled"]
                 ELSE attempts[u]]

CInit ==
    /\ bind_addrs = 0
    /\ conn = "idle"
    /\ attempts = <<>>
    /\ cstream = NewStream

\* set_bind_addrs, lines 540-542
SetBindAddrs(n) ==
    /\ conn = "idle"
    /\ bind_addrs' = n
    /\ UNCHANGED <<conn, attempts, cstream>>
    /\ UNCHANGED lvars

\* connect, lines 528-534: bind one socket per address; a bind that fails
\* ends connect() before any handshake is started
Connect(bindOk) ==
    /\ conn = "idle"
    /\ IF bindOk
       THEN /\ conn' = "running"
            /\ attempts' = [s \in 1..NumSockets(bind_addrs) |-> NewAttempt]
       ELSE /\ conn' = "err"
            /\ attempts' = <<>>
    /\ UNCHANGED <<bind_addrs, cstream>>
    /\ UNCHANGED lvars

Pending(s) == conn = "running" /\ s \in DOMAIN attempts

\* try_connect_with_socket, lines 468-473: pick a conn id, send one SYN
SendSyn(s, c, sendOk) ==
    /\ Pending(s)
    /\ attempts[s].st = "init"
    /\ Step(s, IF sendOk THEN "wait" ELSE "send_err",
            [attempts[s] EXCEPT !.conn_id = c, !.syns = @ + 1])
    /\ UNCHANGED <<bind_addrs, cstream>>
    /\ UNCHANGED lvars

\* wait_sack_loop calls wait_sack for the next datagram of the socket
WaitSackRecv(s, from, buf) ==
    LET a   == attempts[s]
        res == wait_sack(from, buf, a.conn_id)
    IN  /\ Pending(s)
        /\ a.st = "wait"
        /\ Step(s, wait_sack_loop(res),
                [a EXCEPT !.noisy = @ \/ res # "ok",
                          !.sack_seen = @ \/ IsSackFor(from, buf, a.conn_id)])
        /\ UNCHANGED <<bind_addrs, cstream>>
        /\ UNCHANGED lvars

\* (no deadline around wait_sack_loop: the attempt goes on waiting)
DeadlineNever(s) ==
    /\ Pending(s)
    /\ attempts[s].st = "wait"
    /\ UNCHANGED vars

\* try_connect_with_socket, lines 476-480: the 3 s deadline around
\* wait_sack_loop fires
Deadline(s) ==
    /\ Pending(s)
    /\ attempts[s].st = "wait"
    /\ Step(s, "timeout", attempts[s])
    /\ UNCHANGED <<bind_addrs, cstream>>
    /\ UNCHANGED lvars

\* get_tunnel_from_socket, lines 113-127: what the stream's filter_map
\* makes of one datagram (buf, addr) read from the socket of a tunnel to
\* recv_addr with conn id conn_id
stream_filter_map(buf, addr, recv_addr, conn_id) ==
    IF addr # recv_addr THEN [panic |-> TRUE]                 \* assert_eq!
    ELSE [panic |-> FALSE, item |-> try_get_data_payload(buf, conn_id)]

\* the conn id of the tunnel connect() returned
TunnelConnId ==
    attempts[CHOOSE s \in DOMAIN attempts : attempts[s].st = "ok"].conn_id

\* the upper layer polls the returned tunnel's stream and the socket
\* delivers one datagram
ClientStreamRecv(from, buf) ==
    LET v == stream_filter_map(buf, from, TargetAddr, TunnelConnId) IN
    /\ conn = "ok"
    /\ cstream.st = "open"
    /\ cstream' =
         IF v.panic THEN [cstream EXCEPT !.st = "panicked", !.yielded = <<>>]
         ELSE IF v.item.some
              THEN [cstream EXCEPT !.yielded = <<v.item.buf>>]
              ELSE [cstream EXCEPT !.yielded = <<>>, !.skipped = TRUE]
    /\ UNCHANGED <<bind_addrs, conn, attempts>>
    /\ UNCHANGED lvars

SocketIds == 1..MaxBinds

CNext ==
    \/ \E n \in 0..MaxBinds : SetBindAddrs(n)
    \/ \E ok \in BOOLEAN : Connect(ok)
    \/ \E s \in SocketIds, c \in ConnIds, ok \in BOOLEAN : SendSyn(s, c, ok)
    \/ \E s \in SocketIds, a \in Addrs, d \in Datagrams : WaitSackRecv(s, a, d)
    \/ \E s \in SocketIds : Deadline(s)
    \/ \E a \in Addrs, d \in Datagrams : ClientStreamRecv(a, d)

\* the listener is not part of a connector run
ConnInit == LInit /\ CInit
ConnSpec == ConnInit /\ [][CNext]_vars

\* the runtime polls every pending attempt and fires every armed timer
ConnFairSpec ==
    /\ ConnSpec
    /\ \A s \in SocketIds :
         /\ WF_vars(Deadline(s))
         /\ WF_vars(\E c \in ConnIds, ok \in BOOLEAN : SendSyn(s, c, ok))

\* ======================================================================
\* Specifications
\* ======================================================================
\* the connector is not part of a listener run
Init == LInit /\ CInit
Next == LNext
Spec == Init /\ [][Next]_vars

\* the runtime runs every task that is ready: the receive task goes on
\* from where it stands, a forwarder takes what its ring offers.  Datagram
\* arrivals and the upper layer's calls are under no obligation.
FairSpec ==
    /\ Spec
    /\ WF_vars(HcInsert)
    /\ WF_vars(HcSpawn)
    /\ WF_vars(HcEnqueue)
    /\ WF_vars(RingSendResume)
    /\ \A t \in TunnelIds :
         /\ WF_vars(ForwardEos(t))
         /\ WF_vars(\E ok \in BOOLEAN : ForwardOne(t, ok))

\* ======================================================================
\* Properties
\* ======================================================================
Tunnel(t) == tunnels[t]

\* the map entry inserted for tunnel t is still in the map
EntryOf(t) ==
    /\ Tunnel(t).addr \in DOMAIN sock_map
    /\ sock_map[Tunnel(t).addr].tid = t

IsSack(o, addr, c) ==
    o = <<[to |-> addr, bytes |-> encode_to_bytes(new_sack_packet(c))]>>

\* C1: a SYN read from a remote address that has a socket-map entry creates
\* no tunnel: the step sends no SACK, leaves the map, the bridges and the
\* accept queue as they are, and the receive task goes on to the next
\* datagram.
C1_SynFromMappedAddrIgnored ==
    [][\A a \in DOMAIN sock_map, d \in Datagrams, ok \in BOOLEAN :
          RecvSyn(a, d, ok) =>
             /\ out' = <<>>
             /\ rpc' = "recv"
             /\ sock_map' = sock_map
             /\ tunnels' = tunnels
             /\ conn_q' = conn_q]_vars

\* C2: a map entry is inserted while its forwarder is not yet spawned, and
\* the entry of tunnel t leaves the map only in the step in which t's own
\* forwarder exits.
C2_EntryRemovedByOwnForwarder ==
    [][\A t \in DOMAIN tunnels :
          /\ (EntryOf(t) /\ ~EntryOf(t)') =>
                (Tunnel(t).fwd = "running" /\ Tunnel(t)'.fwd = "exited")
          /\ (Tunnel(t).fwd = "running" /\ Tunnel(t)'.fwd = "exited") =>
                EntryOf(t)]_vars

\* C3: whatever tunnel B's stream offers, or is about to be given by the
\* receive task, was cut from a Data datagram that came from B's remote
\* address with B's conn id; so a datagram of another live tunnel A never
\* surfaces on B.
C3_ConnIdIsolation ==
    /\ \A t \in DOMAIN tunnels : \A i \in DOMAIN Tunnel(t).up :
          /\ Tunnel(t).up[i].src = Tunnel(t).addr
          /\ Tunnel(t).up[i].conn_id = Tunnel(t).conn_id
    /\ rpc = "ring_send" =>
          /\ cur.addr = Tunnel(cur.tid).addr
          /\ cur.conn_id = Tunnel(cur.tid).conn_id

Live(t) ==
    /\ t \in DOMAIN tunnels
    /\ Tunnel(t).handle = "accepted"
    /\ Tunnel(t).fwd = "running"
    /\ ~Tunnel(t).closed

\* two tunnels are live at once, one of them with a payload on its stream,
\* and both were opened from the same remote address
C3_Witness ==
    \E a, b \in DOMAIN tunnels :
        /\ a # b /\ Live(a) /\ Live(b)
        /\ Tunnel(b).up # <<>>
        /\ Tunnel(a).addr = Tunnel(b).addr
        /\ Tunnel(a).conn_id # Tunnel(b).conn_id

\* the connection of tunnel t is established: the tunnel was handed to the
\* accept queue, nobody dropped it, its forwarder runs, and no later SYN
\* came from its remote address
Established(t) ==
    /\ Tunnel(t).handle \in {"queued", "accepted"}
    /\ Tunnel(t).fwd = "running"
    /\ ~Tunnel(t).closed
    /\ \A u \in DOMAIN tunnels : u > t => Tunnel(u).addr # Tunnel(t).addr

\* C4: for an established connection (a, c), a buffer the forwarder takes
\* from the accepted tunnel's sink goes out as one Data envelope with conn
\* id c to a, and every Data envelope with conn id c the receive task reads
\* from a reaches the accepted tunnel's stream with the same bytes.
C4_EstablishedConnectionRelays ==
    [][/\ \A t \in DOMAIN tunnels :
             (/\ Tunnel(t).fwd = "running" /\ Tunnel(t)'.fwd = "running"
              /\ Len(Tunnel(t)'.down) < Len(Tunnel(t).down)) =>
                out' = <<[to |-> Tunnel(t).addr,
                          bytes |-> encode_to_bytes(new_data_packet(
                              Tunnel(t).conn_id, Head(Tunnel(t).down)))]>>
       /\ \A a \in Addrs, c \in ConnIds, b \in Payloads :
             RecvForward(a, encode_to_bytes(new_data_packet(c, b))) =>
                \A t \in DOMAIN tunnels :
                   (/\ Established(t)
                    /\ Tunnel(t).addr = a /\ Tunnel(t).conn_id = c) =>
                      \/ /\ Len(Tunnel(t)'.up) = Len(Tunnel(t).up) + 1
                         /\ Tunnel(t)'.up[Len(Tunnel(t)'.up)].data = b
                      \/ /\ rpc' = "ring_send"
                         /\ cur'.tid = t /\ cur'.data = b]_vars

AttemptSt(s) == IF s \in DOMAIN attempts THEN attempts[s].st ELSE "none"

\* C5: an attempt succeeds only on a socket that sent its SYN and then
\* received, from the target address, the Sack envelope with the SYN's conn
\* id; and connect() reports success only for such an attempt.
C5_NoSpuriousHandshake ==
    /\ \A s \in DOMAIN attempts :
          attempts[s].st = "ok" =>
             /\ attempts[s].syns = 1
             /\ attempts[s].conn_id \in ConnIds
             /\ attempts[s].sack_seen
    /\ conn = "ok" => \E s \in DOMAIN attempts : attempts[s].st = "ok"

\* connect() over two bound sockets returned the tunnel of the one whose
\* SACK came in, while the other was still waiting
C5_Witness ==
    /\ conn = "ok"
    /\ bind_addrs = 2
    /\ \E s, u \in DOMAIN attempts :
          /\ attempts[s].st = "ok" /\ attempts[s].sack_seen
          /\ attempts[u].st = "cancelled" /\ attempts[u].syns = 1

\* C6: datagrams that are no matching SACK are discarded and leave the
\* attempt waiting (it can then only time out or be cancelled); once the
\* matching SACK is received within the wait, the attempt has succeeded.
C6_NoiseTolerated ==
    \A s \in DOMAIN attempts :
        /\ attempts[s].sack_seen => attempts[s].st = "ok"
        /\ (attempts[s].noisy /\ ~attempts[s].sack_seen) =>
              attempts[s].st \in {"wait", "timeout", "cancelled"}
        /\ attempts[s].st = "ok" => conn = "ok"

\* noise was discarded, then the SACK completed the handshake
C6_Witness ==
    /\ conn = "ok"
    /\ \E s \in DOMAIN attempts :
          attempts[s].noisy /\ attempts[s].sack_seen /\ attempts[s].st = "ok"

\* C7: every attempt sends exactly one SYN on its socket, a timed-out
\* attempt never saw its SACK, and an attempt that waits for its SACK
\* eventually ends: with success, with the timeout error, or cancelled by
\* connect() returning.
C7_HandshakeTerminates ==
    /\ [](\A s \in DOMAIN attempts :
             /\ attempts[s].syns <= 1
             /\ attempts[s].st \in {"wait", "ok", "send_err", "timeout"} =>
                   attempts[s].syns = 1
             /\ attempts[s].st = "timeout" => ~attempts[s].sack_seen)
    /\ \A s \in SocketIds :
          (AttemptSt(s) = "wait")
             ~> (AttemptSt(s) \in {"ok", "timeout", "cancelled"})
    /\ (conn = "running") ~> (conn \in {"ok", "err"})

\* an attempt timed out after discarding noise, and connect() failed
C7_Witness ==
    /\ conn = "err"
    /\ \E s \in DOMAIN attempts :
          /\ attempts[s].st = "timeout"
          /\ attempts[s].noisy
          /\ attempts[s].syns = 1

\* C8: connect() returns an error only when no attempt succeeds, that is
\* when every socket's handshake has ended in failure.
C8_ErrorOnlyIfAllFailed ==
    conn = "err" =>
       \A s \in DOMAIN attempts : attempts[s].st \in {"send_err", "timeout"}

\* C9: once the listener is dropped, eventually the receive task is gone,
\* no forwarder runs and the socket map is empty.
C9_DropListenerStopsAll ==
    (listener = "dropped") ~>
       (/\ recvTask # "running"
        /\ \A t \in DOMAIN tunnels : Tunnel(t).fwd # "running"
        /\ sock_map = <<>>)

\* C10: once the upper layer has dropped an accepted tunnel, its forwarder
\* eventually exits and the entry inserted for it is out of the map (unless
\* the listener's task set is dropped first, which aborts the forwarder);
\* and a forwarder's exit stops nothing else: the listener, the receive
\* task and the other forwarders are as before.
C10_DroppedTunnelIsReleased ==
    /\ \A t \in TunnelIds :
          (t \in DOMAIN tunnels /\ Tunnel(t).handle = "dropped")
             ~> (t \in DOMAIN tunnels /\
                   \/ (Tunnel(t).fwd = "exited" /\ ~EntryOf(t))
                   \/ Tunnel(t).fwd = "aborted")
    /\ [][\A t \in DOMAIN tunnels :
             (Tunnel(t).fwd = "running" /\ Tunnel(t)'.fwd = "exited") =>
                /\ listener' = listener
                /\ recvTask' = recvTask
                /\ rpc' = rpc
                /\ \A u \in DOMAIN tunnels \ {t} :
                      Tunnel(u)'.fwd = Tunnel(u).fwd]_vars

\* a dropped tunnel's forwarder has exited and its address is unmapped
\* while the listener, the receive task and another tunnel are running
C10_Witness ==
    \E t, u \in DOMAIN tunnels :
        /\ Tunnel(t).handle = "dropped"
        /\ Tunnel(t).fwd = "exited"
        /\ Tunnel(t).addr \notin DOMAIN sock_map
        /\ listener = "listening" /\ recvTask = "running"
        /\ Live(u)

\* C11: no datagram stops the receive task: whatever it reads (undecodable,
\* from an unmapped source, with a wrong conn id or variant, a SYN whose
\* SACK cannot be sent, Data for a closed ring), the task is still running
\* after the step that handles it.
C11_ReceiveTaskSurvivesDatagram ==
    [][\A a \in Addrs, d \in Datagrams :
          (\/ RecvDecodeError(a, d)
           \/ \E ok \in BOOLEAN : RecvSyn(a, d, ok)
           \/ RecvForward(a, d)
           \/ RingSendResume) => recvTask' = "running"]_vars

\* C12: a SYN handled while the accept queue is full or closed does not
\* hold the receive task: without any accept() it gets back to reading
\* datagrams; and a tunnel that was never handed to the upper layer does
\* not stay behind: its forwarder exits and its map entry goes (or the
\* forwarder is aborted with the listener's task set).
C12_FullOrClosedQueueDoesNotBlock ==
    /\ (recvTask = "running" /\ rpc = "hc_enqueue") ~> (rpc = "recv")
    /\ \A t \in TunnelIds :
          (t \in DOMAIN tunnels /\ Tunnel(t).handle = "discarded")
             ~> (t \in DOMAIN tunnels /\
                   \/ (Tunnel(t).fwd = "exited" /\ ~EntryOf(t))
                   \/ Tunnel(t).fwd = "aborted")

\* a datagram that is not a Data envelope of the tunnel to TargetAddr with
\* conn id c
IsNoise(from, buf, c) ==
    \/ from # TargetAddr
    \/ ~try_get_data_payload(buf, c).some

\* C13: on the established client-side tunnel, a datagram from another
\* address, an undecodable one, one with another conn id or one that is no
\* Data envelope is not yielded and leaves the stream open; a Data envelope
\* of the tunnel is yielded with its bytes, also after such datagrams.
C13_ClientStreamIgnoresNoise ==
    [][\A a \in Addrs, d \in Datagrams :
          ClientStreamRecv(a, d) =>
             IF IsNoise(a, d, TunnelConnId)
             THEN cstream'.st = "open" /\ cstream'.yielded = <<>>
             ELSE /\ cstream'.st = "open"
                  /\ d = encode_to_bytes(new_data_packet(
                              TunnelConnId, cstream'.yielded[1]))]_vars

Running == {t \in DOMAIN tunnels : Tunnel(t).fwd = "running"}

\* C14: the counter's get() is the number of map entries, and that number
\* is the number of server-side tunnels whose forwarder runs (looked at
\* while the listener exists, and outside the two lines of handle_connect
\* between the insertion of an entry and the spawn of its forwarder).
C14_CounterCountsLiveTunnels ==
    /\ ConnCounterGet = Cardinality(DOMAIN sock_map)
    /\ (listener = "listening" /\ rpc # "hc_spawn") =>
          ConnCounterGet = Cardinality(Running)

SynConnId(d) == decode_from_bytes_checked(d).conn_id

SynDatagrams == {encode_to_bytes(new_syn_packet(c)) : c \in ConnIds}

\* C15: the step that reads a SYN sends the SACK with its conn id to its
\* source and does nothing else; the entry is inserted, the forwarder
\* spawned and the tunnel enqueued only in the later steps of the same
\* handle_connect, in that order; and when the SACK cannot be sent, no
\* entry is inserted and no forwarder is spawned.
C15_SackBeforeInsertSpawnEnqueue ==
    [][/\ \A a \in Addrs, d \in SynDatagrams :
             /\ RecvSyn(a, d, TRUE) =>
                   /\ IsSack(out', a, SynConnId(d))
                   /\ cur'.addr = a /\ cur'.conn_id = SynConnId(d)
                   /\ UNCHANGED <<sock_map, tunnels, conn_q>>
             /\ RecvSyn(a, d, FALSE) =>
                   /\ out' = <<>>
                   /\ rpc' # "hc_insert"
                   /\ sock_map' = sock_map
                   /\ Len(tunnels') = Len(tunnels)
                   /\ Running' \subseteq Running
                   /\ conn_q' = conn_q
       /\ (rpc' = "hc_insert" /\ rpc # "hc_insert") =>
             rpc = "recv" /\ IsSack(out', cur'.addr, cur'.conn_id)
       /\ (rpc' = "hc_spawn" /\ rpc # "hc_spawn") => rpc = "hc_insert"
       /\ (rpc' = "hc_enqueue" /\ rpc # "hc_enqueue") => rpc = "hc_spawn"
       /\ rpc \in {"hc_insert", "hc_spawn"} =>
             cur'.addr = cur.addr /\ cur'.conn_id = cur.conn_id
       /\ Len(tunnels') > Len(tunnels) =>
             /\ rpc = "hc_insert" /\ rpc' = "hc_spawn"
             /\ sock_map'[cur.addr] = [conn_id |-> cur.conn_id, tid |-> Len(tunnels')]
       /\ (\E a \in DOMAIN sock_map' :
               a \notin DOMAIN sock_map \/ sock_map'[a] # sock_map[a]) =>
             Len(tunnels') > Len(tunnels)
       /\ Running' \ Running # {} =>
             /\ rpc = "hc_spawn" /\ rpc' = "hc_enqueue"
             /\ Running' \ Running = {cur.tid}
       /\ Len(conn_q') > Len(conn_q) =>
             /\ rpc = "hc_enqueue"
             /\ conn_q' = Append(conn_q, cur.tid)]_vars

\* the SACK for a second SYN has gone out and nothing has been inserted
\* for that SYN yet
C15_Witness ==
    /\ rpc = "hc_insert"
    /\ IsSack(out, cur.addr, cur.conn_id)
    /\ Len(tunnels) = 1
    /\ cur.addr \notin DOMAIN sock_map

Up(t) == Tunnel(t).up

Grown(t) == Len(Up(t)') = Len(Up(t)) + 1

\* the step reads, from the address of tunnel t's entry, a Data envelope
\* with the entry's conn id and payload b
ReadsDataFor(t, b) ==
    \E a \in DOMAIN sock_map :
        /\ sock_map[a].tid = t
        /\ RecvForward(a, encode_to_bytes(new_data_packet(sock_map[a].conn_id, b)))

InQueue(t) == \E i \in DOMAIN conn_q : conn_q[i] = t

NonSynDatagrams ==
    {encode_to_bytes(p) : p \in {q \in Packets : q.tag # TagSyn}}

\* C18: a Data, Sack or HolePunch datagram read from an address without map
\* entry is dropped with a warning: the step sends nothing and leaves the
\* map, every bridge (rings and forwarders), the accept queue, the
\* listener and the receive task as they are.
C18_StrayDatagramDropped ==
    [][\A a \in Addrs \ DOMAIN sock_map, d \in NonSynDatagrams :
          RecvForward(a, d) =>
             /\ out' = <<>>
             /\ log' = "udp forward packet: no entry"
             /\ UNCHANGED <<sock_map, tunnels, conn_q, listener, recvTask,
                            rpc, cur>>]_vars

\* a stray datagram has just been dropped while the tunnel of another
\* address is live, with a payload on its stream
C18_Witness ==
    /\ log = "udp forward packet: no entry"
    /\ recvTask = "running" /\ rpc = "recv"
    /\ \E t \in DOMAIN tunnels : Live(t) /\ EntryOf(t) /\ Up(t) # <<>>

\* the step leaves the map and every bridge as they are, sends nothing and
\* the receive task is back at recv_from
Untouched ==
    /\ sock_map' = sock_map
    /\ tunnels' = tunnels
    /\ rpc' = "recv" /\ recvTask' = "running"
    /\ out' = <<>>

\* the Data envelope with conn id c and payload b
DataDatagram(c, b) == encode_to_bytes(new_data_packet(c, b))

\* C19: for a datagram read from an address whose entry is bound to conn id
\* c and to the ring of tunnel t: if it is a Data envelope with conn id c,
\* its inner bytes are handed to that ring's sink (they are on the ring
\* after the step, or the send is pending on a full ring, or it fails on a
\* closed one) and the map is unchanged; if it is a Data envelope with
\* another conn id, a Sack, a HolePunch or undecodable, the step leaves
\* every ring and the map unchanged (put the other way round: a step that
\* touches anything is not the reading of such a datagram).
C19_PushIffDataForBoundConnId ==
    [][/\ \A a \in DOMAIN sock_map, b \in Payloads :
             RecvForward(a, DataDatagram(sock_map[a].conn_id, b)) =>
                LET t == sock_map[a].tid
                    c == sock_map[a].conn_id
                IN  /\ sock_map' = sock_map
                    /\ \/ /\ Up(t)' = Append(Up(t),
                                  [data |-> b, src |-> a, conn_id |-> c])
                          /\ rpc' = "recv"
                       \/ /\ RingSendResult(t) = "full"
                          /\ rpc' = "ring_send"
                          /\ cur'.tid = t /\ cur'.data = b
                          /\ tunnels' = tunnels
                       \/ /\ RingSendResult(t) = "closed"
                          /\ recvTask' = "panicked"
                          /\ \A u \in DOMAIN tunnels : Up(u)' = Up(u)
       /\ ~Untouched =>
             \A a \in DOMAIN sock_map :
                /\ \A d \in NonSynDatagrams \
                            {DataDatagram(sock_map[a].conn_id, b) : b \in Payloads} :
                      ~RecvForward(a, d)
                /\ \A d \in Malformed : ~RecvDecodeError(a, d)]_vars

\* a datagram from a mapped address has just been turned down for its conn
\* id or its variant, and the entry's ring holds an earlier payload
C19_Witness ==
    /\ log \in {"udp conn id not match", "udp payload not data"}
    /\ recvTask = "running" /\ rpc = "recv"
    /\ \E t \in DOMAIN tunnels : Live(t) /\ EntryOf(t) /\ Up(t) # <<>>

\* C20: while the listener exists, every map entry a -> c is the one
\* inserted for a tunnel to a with conn id c whose forwarder is running (or
\* is just being spawned); and a forwarder that exits takes out of the map
\* no entry but the one inserted for it.
C20_EntryBelongsToItsForwarder ==
    /\ [](listener = "listening" =>
            \A a \in DOMAIN sock_map :
               LET e == sock_map[a] IN
               /\ Tunnel(e.tid).addr = a
               /\ Tunnel(e.tid).conn_id = e.conn_id
               /\ \/ Tunnel(e.tid).fwd = "running"
                  \/ rpc = "hc_spawn" /\ cur.tid = e.tid)
    /\ [][\A t \in DOMAIN tunnels :
             (Tunnel(t).fwd = "running" /\ Tunnel(t)'.fwd = "exited") =>
                \A a \in DOMAIN sock_map \ DOMAIN sock_map' :
                   sock_map[a].tid = t]_vars

\* C21: a consumer that no longer reads one tunnel's stream does not hold
\* up the receive task: when the task has a payload for a full ring in
\* hand, it gets back to reading datagrams (for the other tunnels, for new
\* SYNs) without that consumer reading anything.
C21_FullRingDoesNotStallListener ==
    (recvTask = "running" /\ rpc = "ring_send") ~> (rpc # "ring_send")

====
